---- MODULE Spec2Model ----
(***************************************************************************)
(* Model of main.py (Social Media Downloader Pro v4.0): the JSON history   *)
(* file, the download directory, the sweep, the HTTP handlers that touch   *)
(* them, and the pure helper sanitize_filename.                            *)
(*                                                                         *)
(* Strings are sequences of one-character strings, so that the regular     *)
(* expressions, slices and prefix tests of the source are computed and     *)
(* not assumed.  Time is counted in whole days since the epoch.            *)
(***************************************************************************)
EXTENDS Integers, Sequences, FiniteSets, TLC

(***************************************************************************)
(* Bounds of the model.                                                    *)
(***************************************************************************)
MaxLen == 4
MaxMaxLength == 4
MaxCap == 2
MaxTicks == 1
MaxRequests == 2
MaxLimit == 2
StartDay == 19000

(***************************************************************************)
(* Program constants.                                                      *)
(***************************************************************************)
DEFAULT_MAX_LENGTH == 100
TITLE_FIELD_WIDTH == 100
SECONDS_PER_DAY == 86400
MAX_FILE_AGE_DAYS == 1

(***************************************************************************)
(* Python sequence primitives.                                             *)
(***************************************************************************)
Min(a, b) == IF a < b THEN a ELSE b
Max(a, b) == IF a > b THEN a ELSE b

\* s[i:j] of Python for already normalised 0 <= i, j <= len(s)
Slice(s, i, j) == IF j <= i THEN << >> ELSE SubSeq(s, i + 1, j)

\* Python's normalisation of a slice index against a length
PyIndex(k, n) == IF k >= 0 THEN Min(k, n) ELSE Max(n + k, 0)

\* s[k:]
PySliceFrom(s, k) == Slice(s, PyIndex(k, Len(s)), Len(s))

\* s[:k]
PySliceTo(s, k) == Slice(s, 0, PyIndex(k, Len(s)))

\* s[::-1]
PyReverse(s) == [i \in 1..Len(s) |-> s[Len(s) + 1 - i]]

Range(s) == {s[i] : i \in 1..Len(s)}

\* str.startswith(p)
StartsWith(s, p) == Len(s) >= Len(p) /\ SubSeq(s, 1, Len(p)) = p

\* str.rfind(c): 0-based index of the last c, -1 when there is none
RFind(s, c) ==
  LET hits == {i \in 1..Len(s) : s[i] = c}
  IN  IF hits = {} THEN -1 ELSE (CHOOSE i \in hits : \A j \in hits : j <= i) - 1

(***************************************************************************)
(* Character classes of the regular expressions in sanitize_filename.      *)
(***************************************************************************)
\* [<>:"/\\|?*]
RESERVED == {"<", ">", ":", "\"", "/", "\\", "|", "?", "*"}

\* [\x00-\x1f\x7f-\x9f], the members a TLA+ string can spell
CONTROL == {"\t", "\n", "\r", "\f"}

\* \s : the control characters among them are matched too, but the
\* substitution before it has already removed them
WHITESPACE == {" ", "\t", "\n", "\r", "\f"}

\* re.sub('[set]', '', s)
RemoveChars(s, set) == SelectSeq(s, LAMBDA c : c \notin set)

\* re.sub('[set]+', rep, s): every maximal run of characters of set becomes rep
CollapseRuns(s, set, rep) ==
  LET last_of_run(i) == i = Len(s) \/ s[i + 1] \notin set
      marked == [i \in 1..Len(s) |->
                   IF s[i] \notin set THEN s[i]
                   ELSE IF last_of_run(i) THEN rep ELSE ""]
  IN  SelectSeq(marked, LAMBDA c : c # "")

\* str.strip(chars)
Strip(s, set) ==
  LET keep == {i \in 1..Len(s) : s[i] \notin set}
  IN  IF keep = {} THEN << >>
      ELSE LET lo == CHOOSE i \in keep : \A j \in keep : i <= j
               hi == CHOOSE i \in keep : \A j \in keep : j <= i
           IN  SubSeq(s, lo, hi)

\* os.path.splitext (posixpath): the extension starts at the last dot of the
\* last path component, unless only dots precede it in that component
splitext(p) ==
  LET sepIndex == RFind(p, "/")
      dotIndex == RFind(p, ".")
      lead     == {i \in (sepIndex + 1)..(dotIndex - 1) : p[i + 1] # "."}
  IN  IF dotIndex > sepIndex /\ lead # {}
      THEN [name |-> Slice(p, 0, dotIndex), ext |-> Slice(p, dotIndex, Len(p))]
      ELSE [name |-> p, ext |-> << >>]

DOWNLOAD_WORD == <<"d", "o", "w", "n", "l", "o", "a", "d">>

\* sanitize_filename without its first substitution (line 113)
SanitizeChars_keeps_reserved(filename) ==
  LET s2 == RemoveChars(filename, CONTROL)
      s3 == CollapseRuns(s2, WHITESPACE, "_")
      s4 == CollapseRuns(s3, {"."}, ".")
      s5 == CollapseRuns(s4, {"_"}, "_")
  IN  Strip(s5, {".", "_"})

\* lines 113-118: the six substitutions and the strip
SanitizeChars(filename) ==
  LET s1 == RemoveChars(filename, RESERVED)
      s2 == RemoveChars(s1, CONTROL)
      s3 == CollapseRuns(s2, WHITESPACE, "_")
      s4 == CollapseRuns(s3, {"."}, ".")
      s5 == CollapseRuns(s4, {"_"}, "_")
  IN  Strip(s5, {".", "_"})

\* the length limit cutting the whole name, extension included
LimitLength_cuts_ext(filename, max_length) ==
  IF Len(filename) > max_length THEN PySliceTo(filename, max_length) ELSE filename

\* lines 121-123: the length limit
LimitLength(filename, max_length) ==
  IF Len(filename) > max_length
  THEN LET parts == splitext(filename)
       IN  PySliceTo(parts.name, max_length - Len(parts.ext)) \o parts.ext
  ELSE filename

sanitize_filename(filename, max_length) ==
  LET limited == LimitLength(SanitizeChars(filename), max_length)
  IN  IF limited = << >> THEN DOWNLOAD_WORD ELSE limited


(***************************************************************************)
(* Names, paths and the inputs the requests are drawn from.                *)
(***************************************************************************)
Rep(c, n) == [i \in 1..n |-> c]

\* line 66: DOWNLOAD_FOLDER, default "downloads"
DOWNLOAD_FOLDER == DOWNLOAD_WORD \o <<"s">>

\* line 67: the history file's name inside DOWNLOAD_FOLDER
HISTORY_NAME == <<".", "h", "i", "s", "t", "o", "r", "y", ".", "j", "s", "o", "n">>

\* os.path.basename
basename_of(p) == PySliceFrom(p, RFind(p, "/") + 1)

\* os.path.join(DOWNLOAD_FOLDER, name)
join_folder(name) == DOWNLOAD_FOLDER \o <<"/">> \o name

DIGITS == <<"0", "1", "2", "3", "4", "5", "6", "7", "8", "9">>

\* str(n) for n >= 0
RECURSIVE Decimal(_)
Decimal(n) == IF n < 10 THEN <<DIGITS[n + 1]>>
              ELSE Decimal(n \div 10) \o <<DIGITS[(n % 10) + 1]>>

HTTP_PREFIX == <<"h", "t", "t", "p", ":", "/", "/">>
HTTPS_PREFIX == <<"h", "t", "t", "p", "s", ":", "/", "/">>

\* line 295
valid_url(u) == StartsWith(u, HTTP_PREFIX) \/ StartsWith(u, HTTPS_PREFIX)

Urls == {HTTPS_PREFIX \o <<"a">>, <<"f", "t", "p", ":", "/", "/", "a">>}

\* titles the extraction tool reports: a short one and one longer than the
\* template's field
Titles == {<<"a">>, Rep("a", TITLE_FIELD_WIDTH + 1)}

\* the requests of the model ask for video
Formats == {"video"}

\* the POST /download requests of a run, in the order they arrive
Requests == 1..MaxRequests

\* lines 309-310, 318: outtmpl with the timestamp, as prepare_filename expands it
prepare_filename(day, title, ext) ==
  join_folder(Decimal(day * SECONDS_PER_DAY) \o <<"_">>
              \o PySliceTo(title, TITLE_FIELD_WIDTH) \o <<".">> \o ext)

\* lines 363-367: the path `filename` of the handler
tool_filename(day, title, format_type) ==
  IF format_type = "audio"
  THEN LET base == prepare_filename(day, title, <<"m", "4", "a">>)
           dot  == RFind(base, ".")
       IN  (IF dot < 0 THEN base ELSE Slice(base, 0, dot)) \o <<".", "m", "p", "3">>
  ELSE prepare_filename(day, title, <<"m", "p", "4">>)

\* lines 369-370
response_basename(filename) == sanitize_filename(basename_of(filename), DEFAULT_MAX_LENGTH)

\* every failure of the extraction reported as a server error
error_status_always_500(raised) == 500

\* lines 435-444: the status of a failed extraction
error_status(raised) == IF raised = "DownloadError" THEN 400 ELSE 500

(***************************************************************************)
(* State.                                                                  *)
(***************************************************************************)
VARIABLES
  MAX_HISTORY_ITEMS,  \* line 69, read from the environment at import
  now,                \* the wall clock, in days since the epoch
  clock,              \* number of datetime.now() readings taken for history entries
  files,              \* DOWNLOAD_FOLDER: name -> [mtime, is_file]
  history_json,       \* the list stored in HISTORY_FILE (<< >> when it is absent)
  pc,                 \* per request: where its POST /download handler stands
  url,                \* per request: the form field url
  raised,             \* per request: what extract_info raised ("" = nothing)
  invoked,            \* per request: whether extract_info was called
  filename,           \* per request: the path `filename` (line 365/367)
  basename,           \* per request: `basename` after line 370
  history,            \* per request: the list `history` of add_to_history
  status,             \* per request: the HTTP status of its response
  out,                \* the response of the last request other than POST /download
  san                 \* the call of sanitize_filename under check

vars == <<MAX_HISTORY_ITEMS, now, clock, files, history_json,
          pc, url, raised, invoked, filename, basename, history, status,
          out, san>>

config == <<MAX_HISTORY_ITEMS>>
locals == <<pc, url, raised, invoked, filename, basename, history, status>>
server == <<now, clock, files, history_json, locals, out>>

NoOut == [op |-> "none", status |-> 0, arg |-> << >>, body |-> << >>]
NoSan == [filename |-> << >>, max_length |-> 0, called |-> FALSE, result |-> << >>]

EmptyDir == [n \in {} |-> 0]

\* the directory with `name` written or created at `day`
Put(dir, name, day, is_file) ==
  [n \in DOMAIN dir \cup {name} |->
     IF n = name THEN [mtime |-> day, is_file |-> is_file] ELSE dir[n]]

Remove(dir, names) == [n \in DOMAIN dir \ names |-> dir[n]]

\* what an earlier run of the server left in DOWNLOAD_FOLDER the day before:
\* a subdirectory, a downloaded file and the history file, cleared
SubDir == <<"t", "m", "p">>
OldFile == <<"o", "l", "d", ".", "m", "p", "4">>
LeftOver ==
  Put(Put(Put(EmptyDir, SubDir, StartDay - 1, FALSE), OldFile, StartDay - 1, TRUE),
      HISTORY_NAME, StartDay - 1, TRUE)

InitServer ==
  /\ now = StartDay
  /\ clock = 0
  /\ files = LeftOver
  /\ history_json = << >>
  /\ pc = [w \in Requests |-> "idle"]
  /\ url = [w \in Requests |-> << >>]
  /\ raised = [w \in Requests |-> ""]
  /\ invoked = [w \in Requests |-> FALSE]
  /\ filename = [w \in Requests |-> << >>]
  /\ basename = [w \in Requests |-> << >>]
  /\ history = [w \in Requests |-> << >>]
  /\ status = [w \in Requests |-> 0]
  /\ out = NoOut

Init == MAX_HISTORY_ITEMS \in 0..MaxCap /\ InitServer /\ san = NoSan

(***************************************************************************)
(* History management, lines 80-108.                                       *)
(***************************************************************************)
\* lines 80-88
load_history == IF HISTORY_NAME \in DOMAIN files THEN history_json ELSE << >>

\* save_history appending the new entry to what the file holds when it writes
kept_history_rereads(h) ==
  IF h = << >> THEN << >>
  ELSE PySliceFrom(Append(load_history, h[Len(h)]), -MAX_HISTORY_ITEMS)

\* line 94: history[-MAX_HISTORY_ITEMS:]
kept_history(h) == PySliceFrom(h, -MAX_HISTORY_ITEMS)

\* lines 90-98: what the call leaves in the directory and in the file
save_history(h) ==
  /\ history_json' = kept_history(h)
  /\ files' = Put(files, HISTORY_NAME, now, TRUE)

\* lines 103-107: the list add_to_history hands to save_history.  Of the
\* entry's fields the url and the filename are kept; 'timestamp' and 'id' both
\* come from datetime.now(), read to the microsecond: the day and the number
\* of the reading stand for it, so two entries never carry the same one
appended_history(loaded, data) ==
  Append(loaded, [url |-> data.url, filename |-> data.filename,
                  timestamp |-> <<now, clock>>])

(***************************************************************************)
(* The sweep, lines 127-144.                                               *)
(***************************************************************************)
\* the sweep without its test for a leading dot
is_old_file_hidden_too(name) ==
  /\ files[name].is_file
  /\ files[name].mtime < now - MAX_FILE_AGE_DAYS

\* lines 135-137
is_old_file(name) ==
  /\ files[name].is_file
  /\ name[1] # "."
  /\ files[name].mtime < now - MAX_FILE_AGE_DAYS

clean_old_files == files' = Remove(files, {n \in DOMAIN files : is_old_file(n)})


(***************************************************************************)
(* POST /download, lines 285-444.  The handler touches shared state three  *)
(* times: the extraction writes the media file, add_to_history reads the   *)
(* history file, and save_history rewrites it.  Nothing in the module      *)
(* orders these steps between the server processes that host `app`, so     *)
(* each is an action of its own.                                           *)
(***************************************************************************)
\* request w arrives: the ones before it have
arrives(w) == pc[w] = "idle" /\ \A q \in Requests : q < w => pc[q] # "idle"

\* lines 294-297: the URL is refused before anything else happens
download_rejected(w, u) ==
  /\ arrives(w)
  /\ ~valid_url(u)
  /\ url' = [url EXCEPT ![w] = u]
  /\ status' = [status EXCEPT ![w] = 400]
  /\ pc' = [pc EXCEPT ![w] = "done"]
  /\ out' = NoOut
  /\ UNCHANGED <<config, now, clock, files, history_json, raised, invoked,
                 filename, basename, history, san>>

\* lines 356-360, 435-444: extract_info raises
download_failed(w, u, error) ==
  /\ arrives(w)
  /\ valid_url(u)
  /\ url' = [url EXCEPT ![w] = u]
  /\ invoked' = [invoked EXCEPT ![w] = TRUE]
  /\ raised' = [raised EXCEPT ![w] = error]
  /\ status' = [status EXCEPT ![w] = error_status(error)]
  /\ pc' = [pc EXCEPT ![w] = "done"]
  /\ out' = NoOut
  /\ UNCHANGED <<config, now, clock, files, history_json, filename, basename,
                 history, san>>

\* lines 308-370: extract_info returns, the media file is on disk
download_extracted(w, u, format_type, title) ==
  /\ arrives(w)
  /\ valid_url(u)
  /\ url' = [url EXCEPT ![w] = u]
  /\ invoked' = [invoked EXCEPT ![w] = TRUE]
  /\ LET path == tool_filename(now, title, format_type)
     IN  /\ files' = Put(files, basename_of(path), now, TRUE)
         /\ filename' = [filename EXCEPT ![w] = path]
         /\ basename' = [basename EXCEPT ![w] = response_basename(path)]
  /\ pc' = [pc EXCEPT ![w] = "add_to_history"]
  /\ out' = NoOut
  /\ UNCHANGED <<config, now, clock, history_json, raised, history, status, san>>

\* lines 102-107, called from line 415
add_to_history(w) ==
  /\ pc[w] = "add_to_history"
  /\ clock' = clock + 1
  /\ history' = [history EXCEPT ![w] =
       appended_history(load_history, [url |-> url[w], filename |-> basename[w]])]
  /\ pc' = [pc EXCEPT ![w] = "save_history"]
  /\ out' = NoOut
  /\ UNCHANGED <<config, now, files, history_json, url, raised, invoked,
                 filename, basename, status, san>>

\* line 108, then the response of lines 417-433
download_saved(w) ==
  /\ pc[w] = "save_history"
  /\ save_history(history[w])
  /\ status' = [status EXCEPT ![w] = 200]
  /\ pc' = [pc EXCEPT ![w] = "done"]
  /\ out' = NoOut
  /\ UNCHANGED <<config, now, clock, url, raised, invoked, filename,
                 basename, history, san>>

(***************************************************************************)
(* The other handlers.  None of them awaits, so each runs as one step.     *)
(***************************************************************************)
\* lines 264-272: GET /history?limit=N
get_history(limit) ==
  /\ out' = [op |-> "get_history", status |-> 200, arg |-> <<limit>>,
             body |-> PyReverse(PySliceFrom(load_history, -limit))]
  /\ UNCHANGED <<config, now, clock, files, history_json, locals, san>>

\* lines 274-283: DELETE /history
clear_history ==
  /\ save_history(<< >>)
  /\ out' = [op |-> "clear_history", status |-> 200, arg |-> << >>, body |-> << >>]
  /\ UNCHANGED <<config, now, clock, locals, san>>

\* lines 446-465: GET /media/{filename}; FileResponse sends regular files only
serve_media(name) ==
  /\ LET file == basename_of(name)
     IN  out' = IF file \notin DOMAIN files
                THEN [op |-> "serve_media", status |-> 404, arg |-> name, body |-> << >>]
                ELSE IF files[file].is_file
                THEN [op |-> "serve_media", status |-> 200, arg |-> name, body |-> file]
                ELSE [op |-> "serve_media", status |-> 500, arg |-> name, body |-> << >>]
  /\ UNCHANGED <<config, now, clock, files, history_json, locals, san>>

\* lines 467-482: DELETE /media/{filename}; os.remove refuses a directory
delete_media(name) ==
  /\ LET file == basename_of(name)
     IN  IF file \notin DOMAIN files
         THEN /\ out' = [op |-> "delete_media", status |-> 404, arg |-> name, body |-> << >>]
              /\ UNCHANGED <<files, history_json>>
         ELSE IF files[file].is_file
         THEN /\ files' = Remove(files, {file})
              /\ history_json' = IF file = HISTORY_NAME THEN << >> ELSE history_json
              /\ out' = [op |-> "delete_media", status |-> 200, arg |-> name, body |-> file]
         ELSE /\ out' = [op |-> "delete_media", status |-> 500, arg |-> name, body |-> << >>]
              /\ UNCHANGED <<files, history_json>>
  /\ UNCHANGED <<config, now, clock, locals, san>>

\* lines 504-511: POST /cleanup
cleanup_old_files ==
  /\ clean_old_files
  /\ out' = [op |-> "cleanup", status |-> 200, arg |-> << >>, body |-> << >>]
  /\ UNCHANGED <<config, now, clock, history_json, locals, san>>

\* lines 192-206: a server process starts (uvicorn runs with reload=True)
startup_event ==
  /\ clean_old_files
  /\ out' = [op |-> "startup", status |-> 0, arg |-> << >>, body |-> << >>]
  /\ UNCHANGED <<config, now, clock, history_json, locals, san>>

\* a day passes
Tick ==
  /\ now < StartDay + MaxTicks
  /\ now' = now + 1
  /\ out' = NoOut
  /\ UNCHANGED <<config, clock, files, history_json, locals, san>>

\* the names a client puts in /media/{filename}: the ones its downloads
\* returned, the history file's and a directory's
MediaArgs ==
  {basename[w] : w \in {q \in Requests : status[q] = 200}} \cup {HISTORY_NAME, SubDir}

Limits == 0..MaxLimit

Next ==
  \/ \E w \in Requests, u \in Urls : download_rejected(w, u)
  \/ \E w \in Requests, u \in Urls, e \in {"DownloadError", "Exception"} :
       download_failed(w, u, e)
  \/ \E w \in Requests, u \in Urls, f \in Formats, t \in Titles :
       download_extracted(w, u, f, t)
  \/ \E w \in Requests : add_to_history(w)
  \/ \E w \in Requests : download_saved(w)
  \/ \E n \in Limits : get_history(n)
  \/ clear_history
  \/ \E name \in MediaArgs : serve_media(name)
  \/ \E name \in MediaArgs : delete_media(name)
  \/ cleanup_old_files
  \/ startup_event
  \/ Tick

Spec == Init /\ [][Next]_vars

(***************************************************************************)
(* sanitize_filename on its own: every string over Alphabet of at most     *)
(* MaxLen characters, every max_length in 1..MaxMaxLength and the default. *)
(***************************************************************************)
Alphabet == {"a", ".", "_", " ", "/", "\t"}

RECURSIVE StringsUpTo(_)
StringsUpTo(n) ==
  IF n = 0 THEN {<< >>}
  ELSE LET shorter == StringsUpTo(n - 1)
       IN  shorter \cup {Append(s, c) : s \in shorter, c \in Alphabet}

InitSan ==
  /\ MAX_HISTORY_ITEMS = MaxCap
  /\ InitServer
  /\ \E f \in StringsUpTo(MaxLen), m \in 1..MaxMaxLength \cup {DEFAULT_MAX_LENGTH} :
       san = [filename |-> f, max_length |-> m, called |-> FALSE, result |-> << >>]

call_sanitize_filename ==
  /\ ~san.called
  /\ san' = [san EXCEPT !.called = TRUE,
                        !.result = sanitize_filename(san.filename, san.max_length)]
  /\ UNCHANGED <<config, server>>

NextSan == call_sanitize_filename

SpecSan == InitSan /\ [][NextSan]_vars


(***************************************************************************)
(* The properties.                                                         *)
(***************************************************************************)
\* the last min(n, Len(s)) elements of s
LastN(s, n) == SubSeq(s, Len(s) - Min(n, Len(s)) + 1, Len(s))

Last(s) == s[Len(s)]

EndsWith(s, t) == Len(s) >= Len(t) /\ SubSeq(s, Len(s) - Len(t) + 1, Len(s)) = t

\* the suffix of s from its last dot, empty when s has none
ExtOf(s) == IF RFind(s, ".") < 0 THEN << >> ELSE PySliceFrom(s, RFind(s, "."))

\* the requests that were answered with success
Succeeded == {r \in Requests : pc[r] = "done" /\ status[r] = 200}

\* C1: the history file never holds more than MAX_HISTORY_ITEMS entries,
\* whatever non-negative value the cap has.
C1_HistoryWithinCap == Len(history_json) <= MAX_HISTORY_ITEMS

C3_ReturnedNameIsServed ==
  \A r \in Succeeded :
    basename_of(filename[r]) \in DOMAIN files
      => /\ basename_of(basename[r]) \in DOMAIN files
         /\ basename_of(basename[r]) = basename_of(filename[r])

\* C4: a sweep removes only regular files whose modification time is
\* strictly before now - MAX_FILE_AGE_DAYS, never the history file, changes
\* no file it leaves, and leaves every file that is not older than the cutoff.
C4_SweepRemovesOnlyOldFiles ==
  [][out'.op \in {"cleanup", "startup"} =>
       /\ DOMAIN files' \subseteq DOMAIN files
       /\ \A n \in DOMAIN files :
            /\ n \notin DOMAIN files' =>
                 /\ files[n].is_file
                 /\ files[n].mtime < now - MAX_FILE_AGE_DAYS
                 /\ n # HISTORY_NAME
            /\ n \in DOMAIN files' => files'[n] = files[n]
            /\ files[n].mtime >= now - MAX_FILE_AGE_DAYS => n \in DOMAIN files'
       /\ history_json' = history_json]_vars

\* POST /cleanup has removed the old file and left the history file, which is
\* as old, the subdirectory and a file downloaded after the cutoff
C4_SweepReached ==
  /\ out.op = "cleanup"
  /\ OldFile \notin DOMAIN files
  /\ SubDir \in DOMAIN files
  /\ HISTORY_NAME \in DOMAIN files
  /\ files[HISTORY_NAME].mtime < now - MAX_FILE_AGE_DAYS
  /\ \E r \in Requests : filename[r] # << >> /\ basename_of(filename[r]) \in DOMAIN files

\* C5: GET /history?limit=N answers the last min(N, len) entries of the
\* stored history, newest first, for every N >= 0.
C5_GetHistoryLastN ==
  out.op = "get_history" => out.body = PyReverse(LastN(load_history, out.arg[1]))

\* C6: a POST /download that fails leaves the history and the directory as
\* they were; a url without http:// or https:// is answered 400 and the
\* extraction is not invoked; DownloadError is answered 400 and any other
\* exception 500; every stored entry was appended by a request whose
\* extraction returned.
C6_FailureWritesNoHistory ==
  [][/\ \A r \in Requests :
          /\ pc'[r] = "done" /\ ~valid_url(url'[r]) => status'[r] = 400 /\ ~invoked'[r]
          /\ pc'[r] = "done" /\ raised'[r] = "DownloadError" => status'[r] = 400
          /\ pc'[r] = "done" /\ raised'[r] = "Exception" => status'[r] = 500
          /\ status'[r] \in {400, 500} => history'[r] = << >>
          /\ status[r] = 0 /\ status'[r] \in {400, 500} =>
               history_json' = history_json /\ files' = files
     /\ \A i \in 1..Len(history_json') :
          \E r \in Requests :
            /\ history'[r] # << >> /\ Last(history'[r]) = history_json'[i]
            /\ valid_url(url'[r]) /\ invoked'[r] /\ raised'[r] = ""]_vars

\* one request stored its entry, the other failed with an exception and the
\* history still holds that single entry
C6_FailureReached ==
  /\ Len(history_json) = 1
  /\ \E r \in Succeeded : \E q \in Requests :
       pc[q] = "done" /\ raised[q] = "Exception" /\ status[q] = 500

\* C7: every add_to_history leaves in the file the last MAX_HISTORY_ITEMS
\* elements of what the file held followed by the new entry.
C7_AppendOnly ==
  [][\A r \in Requests :
       pc[r] = "save_history" /\ pc'[r] = "done" =>
         history_json' =
           LastN(Append(load_history, Last(history[r])), MAX_HISTORY_ITEMS)]_vars

\* C8: the result of sanitize_filename is not empty and holds no reserved
\* and no control character; an input made only of characters that are
\* removed or stripped yields "download".
C8_SanitizedNameIsSafe ==
  san.called =>
    /\ san.result # << >>
    /\ \A i \in 1..Len(san.result) : san.result[i] \notin RESERVED \cup CONTROL
    /\ Range(san.filename) \subseteq RESERVED \cup CONTROL \cup WHITESPACE \cup {".", "_"}
         => san.result = DOWNLOAD_WORD

\* an input with a reserved and a control character came out with its letter
C8_SanitizeReached ==
  /\ san.called
  /\ "/" \in Range(san.filename) /\ "\t" \in Range(san.filename)
  /\ "a" \in Range(san.result)

\* the name after the substitutions, before the length limit
Untruncated == SanitizeChars(san.filename)
Truncated == Len(Untruncated) > san.max_length

\* C9 as stated: the result is never longer than max_length, and a
\* truncated result ends with the extension of the untruncated name.
C9_NeverLongerThanMax ==
  san.called =>
    /\ Len(san.result) <= san.max_length
    /\ Truncated => EndsWith(san.result, ExtOf(Untruncated))

\* C9 amended: a truncated result ends with the extension of the untruncated
\* name; the result is no longer than max_length when that extension is no
\* longer than max_length and the sanitized name is not empty.
C9_LengthBoundWithShortExt ==
  san.called =>
    /\ Truncated => EndsWith(san.result, ExtOf(Untruncated))
    /\ Untruncated # << >> /\ Len(ExtOf(Untruncated)) <= san.max_length
         => Len(san.result) <= san.max_length

\* a name was cut to max_length and kept its extension
C9_TruncationReached ==
  /\ san.called /\ Truncated
  /\ ExtOf(Untruncated) # << >>
  /\ Len(ExtOf(Untruncated)) < san.max_length
  /\ Len(san.result) = san.max_length

\* C10: GET /media/{filename} and DELETE /media/{filename} leave the
\* history file and its contents as they were, and DELETE removes at most
\* the one named downloaded file.
C10_MediaLeavesHistory ==
  [][out'.op \in {"serve_media", "delete_media"} =>
       /\ history_json' = history_json
       /\ HISTORY_NAME \in DOMAIN files =>
            HISTORY_NAME \in DOMAIN files' /\ files'[HISTORY_NAME] = files[HISTORY_NAME]
       /\ DOMAIN files \ DOMAIN files' \subseteq {basename_of(out'.arg)}
       /\ \A n \in DOMAIN files' : n \in DOMAIN files /\ files'[n] = files[n]]_vars

====
